---- MODULE Spec2Model ----
(***************************************************************************)
(* Model of solver.py: the benchmark driver for the sparse direct solvers  *)
(* UMFPACK, SuperLU and Intel MKL (pypardiso).                             *)
(*                                                                         *)
(* Three specifications:                                                   *)
(*   Spec      the script run from the command line (the __main__ block,   *)
(*             main, solve_with_profiling, log_results);                   *)
(*   SpecLoad  load_matrix called with arbitrary arguments;                *)
(*   SpecLog   log_results called repeatedly with arbitrary result lists.  *)
(*                                                                         *)
(* Abstractions: a path is the sequence of its '/'-separated components;   *)
(* a line of a file is its terminator and the tuple of its fields;         *)
(* floating-point numbers are integers; time.time() is a counter of its    *)
(* calls; a backend that returns, returns the exact solution; what the     *)
(* environment decides (the command line, the installed modules, the       *)
(* platform, the files found, whether a file can be read, whether a        *)
(* backend returns or raises) is chosen nondeterministically.              *)
(***************************************************************************)
EXTENDS Integers, Sequences, FiniteSets, TLC

VARIABLES
    argv,           \* sys.argv
    pypardiso,      \* TRUE iff the module pypardiso can be imported
    os,             \* what platform.system() would return on this machine
    fs,             \* the result files: path -> Absent or File(lines)
    pc,             \* position of the script
    error,          \* the exception that ended the process, or "none"
    warned,         \* the "Module PyPardiso not available" line was printed
    library,        \* __main__'s library
    n_runs,         \* __main__'s n_runs
    prompted,       \* input("Are you ready? (y/n)") was shown
    globs,          \* number of glob.glob calls
    corpus,         \* 1: matrici_def_pos, 2: matrici_non_def_pos
    matrices,       \* main's matrices
    i,              \* main's i
    index,          \* main's index
    A,              \* main's A, None when unbound
    b,              \* main's b, None when unbound
    result,         \* main's result
    results,        \* main's results
    results_sdf,    \* __main__'s results_sdf
    results_unsym,  \* __main__'s results_unsym
    clock,          \* number of time.time() calls so far
    reads,          \* number of sio.mmread calls
    solves,         \* number of spsolve calls (attempts)
    opens,          \* number of open() calls on a result file
    memErrs,        \* number of MemoryErrors raised by a solver so far
    peak,           \* largest number of matrices alive at once
    loadedAt,       \* the iteration (corpus, i, index) that loaded A
    fs0,            \* the result files when the process started
    calls,          \* unit specifications: the calls made so far
    attempts        \* what the backend did in each solve of this call of main

vars == <<argv, pypardiso, os, fs, pc, error, warned, library, n_runs, prompted,
          globs, corpus, matrices, i, index, A, b, result, results,
          results_sdf, results_unsym, clock, reads, solves, opens, memErrs,
          peak, loadedAt, fs0, calls, attempts>>

(***************************************************************************)
(* Bounds of the model.                                                    *)
(***************************************************************************)
MaxRuns == 2        \* largest trial count given on the command line
MaxFiles == 2       \* largest number of .mtx files in one data directory
MaxMemErrs == 1     \* most MemoryErrors the solvers raise in one process
MaxCalls == 2       \* unit specifications: most calls in one behaviour
MaxBatch == 2       \* SpecLog: longest result list passed to log_results

\* Python's None, and an unbound name
None == [none |-> TRUE]
\* a file that does not exist, and an existing file with its lines
Absent == [exists |-> FALSE, lines |-> <<>>]

File(lines) == [exists |-> TRUE, lines |-> lines]

(***************************************************************************)
(* Helpers.                                                                *)
(***************************************************************************)
Last(s) == s[Len(s)]

Max(x, y) == IF x >= y THEN x ELSE y

Range(s) == {s[k] : k \in 1..Len(s)}

RECURSIVE SumSq(_)
SumSq(v) == IF v = <<>> THEN 0 ELSE v[1] * v[1] + SumSq(Tail(v))

\* floor of the square root
Isqrt(n) == CHOOSE r \in 0..n : r * r <= n /\ (r + 1) * (r + 1) > n

\* np.linalg.norm(v, ord=2), in integers
Norm2(v) == Isqrt(SumSq(v))

\* np.ones((n, ))
Ones(n) == [k \in 1..n |-> 1]

(***************************************************************************)
(* The data directories.  A file name is one of AllNames, which is in      *)
(* lexicographic order; the matrix in AllNames[k] is k x k.                *)
(***************************************************************************)
AllNames == <<"a.mtx", "b.mtx", "c.mtx", "d.mtx">>

Names == {AllNames[k] : k \in 1..MaxFiles}

Rank(name) == CHOOSE k \in 1..Len(AllNames) : AllNames[k] = name

DataDir(c) == IF c = 1 THEN <<".", "data", "matrici_def_pos">>
              ELSE <<".", "data", "matrici_non_def_pos">>

MatricesType(c) == IF c = 1 THEN "def_pos" ELSE "non_def_pos"

\* shape stored in the Matrix Market file at path
FileShape(path) == <<Rank(Last(path)), Rank(Last(path))>>

\* all orders in which glob.glob can list the files of a directory
Listings(dir, files) ==
    {s \in [1..Cardinality(files) -> {Append(dir, f) : f \in files}] :
        \A j, k \in 1..Cardinality(files) : j # k => s[j] # s[k]}

\* lexicographic order of two paths of one directory
PathLess(p, q) == Rank(Last(p)) < Rank(Last(q))

\* sorted(listing)
sorted(listing) ==
    CHOOSE s \in [1..Len(listing) -> Range(listing)] :
        /\ Range(s) = Range(listing)
        /\ \A j, k \in 1..Len(s) : j < k => PathLess(s[j], s[k])

(***************************************************************************)
(* load_matrix.  readable: whether sio.mmread can read and parse the file. *)
(* The outcome is a record: raised is the exception raised ("none" when    *)
(* the call returns), value the returned matrix, reads the number of       *)
(* sio.mmread calls made.                                                  *)
(***************************************************************************)
mmread(path) == [path |-> path, format |-> "coo", shape |-> FileShape(path)]

tocsr(m) == [m EXCEPT !.format = "csr"]

tocsc(m) == [m EXCEPT !.format = "csc"]

\* sio.mmread(path).tocsr() or .tocsc(), conv being the conversion
ReadAs(path, readable, conv) ==
    IF readable
    THEN [raised |-> "none", value |-> IF conv = "csr" THEN tocsr(mmread(path))
                                       ELSE tocsc(mmread(path)),
          reads |-> 1]
    ELSE [raised |-> "OSError", value |-> None, reads |-> 1]

load_matrix(path, matrix_format, readable) ==
    IF matrix_format = "csr" THEN ReadAs(path, readable, "csr")
    ELSE IF matrix_format = "csc" THEN ReadAs(path, readable, "csc")
    ELSE [raised |-> "ValueError", value |-> None, reads |-> 0]

(***************************************************************************)
(* create_b: the product A @ xe, kept symbolic (the matrix and xe).        *)
(***************************************************************************)
create_b(matrix) == [matrix |-> matrix.path, xe |-> Ones(matrix.shape[2])]

(***************************************************************************)
(* get_relative_error: norm(xe - x) / norm(xe).                            *)
(***************************************************************************)
get_relative_error(xe, x) ==
    Norm2([k \in 1..Len(xe) |-> xe[k] - x[k]]) \div Norm2(xe)

(***************************************************************************)
(* solve_with_profiling.  outcome is what the backend does with the system *)
(* ("ok": returns the solution; otherwise the exception it raises); have   *)
(* is whether the name pypardiso is bound; now is the clock.               *)
(* The outcome is a record: raised, value (the returned dictionary),       *)
(* ticks (time.time() calls made), solves (spsolve calls made).            *)
(***************************************************************************)
Libraries == {"mkl", "superlu", "umfpack"}

\* the direct solvers solve A x = b exactly: x is the xe b was built from
spsolve(Am, bv) == bv.xe

\* mutant of UmfpackMemError: no except clause, MemoryError propagates
UmfpackMemErrorUncaught(solver_library, outcome) == FALSE

\* the umfpack branch: MemoryError is caught, and leaves x unbound
UmfpackMemError(solver_library, outcome) ==
    solver_library = "umfpack" /\ outcome = "MemoryError"

\* relative_error = get_relative_error(xe, x) if not umfpack_mem_error else -1
RelativeError(Am, bv, umfpack_mem_error) ==
    IF ~umfpack_mem_error
    THEN get_relative_error(Ones(Am.shape[2]), spsolve(Am, bv))
    ELSE -1

\* 'umfpack_error': 1 if umfpack_mem_error else 0
UmfpackErrorFlag(umfpack_mem_error) == IF umfpack_mem_error THEN 1 ELSE 0

RunResult(Am, bv, matrix_name, matrix_type, solver_library, umfpack_mem_error, now) ==
    [matrix_name |-> matrix_name,
     matrix_type |-> matrix_type,
     matrix_dimensions |-> <<Am.shape[1], "x", Am.shape[2]>>,
     start_time |-> now,
     end_time |-> now + 1,
     relative_error |-> RelativeError(Am, bv, umfpack_mem_error),
     solver_library |-> solver_library,
     umfpack_error |-> UmfpackErrorFlag(umfpack_mem_error)]

\* mutant of solve_with_profiling: every branch needs the name pypardiso
solve_with_profilingNeedsMkl(Am, bv, matrix_name, matrix_type, solver_library, outcome, have, now) ==
    IF solver_library \notin Libraries
    THEN [raised |-> "ValueError", value |-> None, ticks |-> 0, solves |-> 0]
    ELSE IF ~have
    THEN [raised |-> "NameError", value |-> None, ticks |-> 1, solves |-> 0]
    ELSE IF outcome # "ok" /\ ~UmfpackMemError(solver_library, outcome)
    THEN [raised |-> outcome, value |-> None, ticks |-> 1, solves |-> 1]
    ELSE [raised |-> "none",
          value |-> RunResult(Am, bv, matrix_name, matrix_type, solver_library,
                              UmfpackMemError(solver_library, outcome), now),
          ticks |-> 2, solves |-> 1]

solve_with_profiling(Am, bv, matrix_name, matrix_type, solver_library, outcome, have, now) ==
    IF solver_library \notin Libraries
    THEN [raised |-> "ValueError", value |-> None, ticks |-> 0, solves |-> 0]
    ELSE IF solver_library = "mkl" /\ ~have
    THEN [raised |-> "NameError", value |-> None, ticks |-> 1, solves |-> 0]
    ELSE IF outcome # "ok" /\ ~UmfpackMemError(solver_library, outcome)
    THEN [raised |-> outcome, value |-> None, ticks |-> 1, solves |-> 1]
    ELSE [raised |-> "none",
          value |-> RunResult(Am, bv, matrix_name, matrix_type, solver_library,
                              UmfpackMemError(solver_library, outcome), now),
          ticks |-> 2, solves |-> 1]

(***************************************************************************)
(* log_results.  Python values are tagged so that a function object and a  *)
(* string can be compared, as == does in Python.                           *)
(***************************************************************************)
PyStr(s) == [kind |-> "str", val |-> s]

\* the attribute platform.system: a function object (it is not called)
platform_system == [kind |-> "function", val |-> "platform.system"]

csv_fields == <<"matrix", "dimensions", "type", "start_time", "end_time",
                "rel_error", "system", "library", "umfpack_error">>

\* system_type = 'ubuntu' if platform.system == 'Linux' else 'windows'
system_type == IF platform_system = PyStr("Linux") THEN "ubuntu" ELSE "windows"

\* './{}-{}.csv'.format(system_type, filename)
FilePath(tag, filename) == <<tag, filename>>

LogPaths == {FilePath(t, "python-result-log") : t \in {"ubuntu", "windows"}}

\* the dictionary built for one result
Row(r) ==
    [f \in Range(csv_fields) |->
        CASE f = "matrix" -> r.matrix_name
          [] f = "dimensions" -> r.matrix_dimensions
          [] f = "type" -> r.matrix_type
          [] f = "start_time" -> r.start_time
          [] f = "end_time" -> r.end_time
          [] f = "rel_error" -> r.relative_error
          [] f = "system" -> system_type
          [] f = "library" -> r.solver_library
          [] f = "umfpack_error" -> r.umfpack_error]

\* a line of a file: how it ends ("LF": "\n", "CRLF": "\r\n") and its fields
Line(end, fields) == <<end, fields>>

\* outfile.write(",".join(csv_fields) + "\n")
HeaderLine == Line("LF", csv_fields)

\* csv.DictWriter(fieldnames=csv_fields).writerow(row)
RowLine(row) == Line("CRLF", [k \in 1..Len(csv_fields) |-> row[csv_fields[k]]])

RowLines(rs) == [k \in 1..Len(rs) |-> RowLine(Row(rs[k]))]

\* pathlib.Path(filepath).is_file()
is_file(files, filepath) == files[filepath].exists

\* mutant of WithHeader: the file is opened with 'w' whether it exists or not
WithHeaderAlways(files, filepath) ==
    [files EXCEPT ![filepath] = File(<<HeaderLine>>)]

\* the file system after "if not myfile.is_file(): open(filepath, 'w') ..."
WithHeader(files, filepath) ==
    IF ~is_file(files, filepath)
    THEN [files EXCEPT ![filepath] = File(<<HeaderLine>>)]
    ELSE files

\* mutant of log_results: no "if not results: return None"
log_resultsNoGuard(files, rs, filename) ==
    LET filepath == FilePath(system_type, filename)
        created == WithHeader(files, filepath)
    IN  [fs |-> [created EXCEPT ![filepath] =
                    File(created[filepath].lines \o RowLines(rs))],
         opens |-> (IF ~is_file(files, filepath) THEN 1 ELSE 0) + 1]

\* the outcome of the call: the file system after it and the open() calls made
log_results(files, rs, filename) ==
    IF rs = <<>>
    THEN [fs |-> files, opens |-> 0]
    ELSE LET filepath == FilePath(system_type, filename)
             created == WithHeader(files, filepath)
         IN  [fs |-> [created EXCEPT ![filepath] =
                                File(created[filepath].lines \o RowLines(rs))],
              opens |-> (IF ~is_file(files, filepath) THEN 1 ELSE 0) + 1]

(***************************************************************************)
(* The command line.  A number is the string of its digits.                *)
(***************************************************************************)
Digits == <<"1", "2", "3", "4">>

\* whether int(s) returns (it raises ValueError otherwise)
IsNumeral(s) == s \in {"0", "-5"} \/ \E k \in 1..Len(Digits) : Digits[k] = s

\* int(s)
int(s) == IF s = "0" THEN 0
          ELSE IF s = "-5" THEN -5
          ELSE CHOOSE k \in 1..Len(Digits) : Digits[k] = s

\* the check of the library name
LibraryAccepted(lib) == lib \in {"umfpack", "superlu", "mkl"}

\* mutant of RunsAccepted: n_runs >= 0 is let through
RunsAcceptedFromZero(n) == n >= 0

\* the check of the run number
RunsAccepted(n) == n >= 1

\* the __main__ block up to the first print: "ok", or the exception raised
ParseArgs(args) ==
    IF Len(args) = 3
    THEN IF ~LibraryAccepted(args[2]) THEN "ValueError"
         ELSE IF ~IsNumeral(args[3]) THEN "ValueError"
         ELSE IF ~RunsAccepted(int(args[3])) THEN "ValueError"
         ELSE "ok"
    ELSE "ValueError"

(***************************************************************************)
(* The script (Spec).                                                      *)
(***************************************************************************)
LibArgs == Libraries \cup {"foo"}

RunArgs == {"0", "-5", "abc"} \cup {Digits[k] : k \in 1..MaxRuns}

Argvs ==
    {<<"solver.py">>}
    \cup {<<"solver.py", l>> : l \in LibArgs}
    \cup {<<"solver.py", l, r>> : l \in LibArgs, r \in RunArgs}
    \cup {<<"solver.py", l, r, "extra">> : l \in LibArgs, r \in RunArgs}

\* a result file left by an earlier process: the header and one row
OldLog ==
    File(<<HeaderLine,
           Line("CRLF", <<"old.mtx", <<1, "x", 1>>, "def_pos", 0, 1, 0,
                          "windows", "superlu", 0>>)>>)

\* the result files a process can find: none, or both left by earlier runs
Disks == {[p \in LogPaths |-> Absent], [p \in LogPaths |-> OldLog]}

\* the values the variables of main and of the unit specifications start with
Idle ==
    /\ library = ""
    /\ n_runs = 0
    /\ prompted = FALSE
    /\ globs = 0
    /\ corpus = 1
    /\ matrices = <<>>
    /\ i = 0
    /\ index = 0
    /\ A = None
    /\ b = None
    /\ result = None
    /\ results = <<>>
    /\ results_sdf = <<>>
    /\ results_unsym = <<>>
    /\ clock = 0
    /\ reads = 0
    /\ solves = 0
    /\ opens = 0
    /\ memErrs = 0
    /\ peak = 0
    /\ loadedAt = <<>>
    /\ calls = <<>>
    /\ attempts = <<>>
    /\ error = "none"
    /\ warned = FALSE

Init ==
    /\ argv \in Argvs
    /\ pypardiso \in BOOLEAN
    /\ os \in {"Linux", "Windows"}
    /\ fs \in Disks
    /\ fs0 = fs
    /\ pc = "import"
    /\ Idle

\* the process ends with exception e
Raise(e) == pc' = "failed" /\ error' = e

\* try: import pypardiso / except ImportError: print(...)
Import ==
    /\ pc = "import"
    /\ warned' = ~pypardiso
    /\ pc' = "args"
    /\ UNCHANGED <<argv, pypardiso, os, fs, error, library, n_runs, prompted,
                   globs, corpus, matrices, i, index, A, b, result, results,
                   results_sdf, results_unsym, clock, reads, solves, opens,
                   memErrs, peak, loadedAt, fs0, calls, attempts>>

\* the checks of sys.argv
Args ==
    /\ pc = "args"
    /\ IF ParseArgs(argv) = "ok"
       THEN /\ library' = argv[2]
            /\ n_runs' = int(argv[3])
            /\ pc' = "prompt"
            /\ error' = error
       ELSE /\ Raise(ParseArgs(argv))
            /\ UNCHANGED <<library, n_runs>>
    /\ UNCHANGED <<argv, pypardiso, os, fs, warned, prompted,
                   globs, corpus, matrices, i, index, A, b, result, results,
                   results_sdf, results_unsym, clock, reads, solves, opens,
                   memErrs, peak, loadedAt, fs0, calls, attempts>>

\* one turn of "while not ready": the prompt and the user's answer
Prompt ==
    /\ pc = "prompt"
    /\ \E user_is_ready \in {"y", "n"} :
          pc' = IF user_is_ready = "y" THEN "glob" ELSE "prompt"
    /\ prompted' = TRUE
    /\ UNCHANGED <<argv, pypardiso, os, fs, error, warned, library, n_runs,
                   globs, corpus, matrices, i, index, A, b, result, results,
                   results_sdf, results_unsym, clock, reads, solves, opens,
                   memErrs, peak, loadedAt, fs0, calls, attempts>>

\* sorted(glob.glob(...)) and the entry of main: results = []
Glob ==
    /\ pc = "glob"
    /\ \E files \in SUBSET Names : \E listing \in Listings(DataDir(corpus), files) :
          matrices' = sorted(listing)
    /\ globs' = globs + 1
    /\ results' = <<>>
    /\ attempts' = <<>>
    /\ i' = 0
    /\ pc' = "for_i"
    /\ UNCHANGED <<argv, pypardiso, os, fs, error, warned, library, n_runs,
                   prompted, corpus, index, A, b, result,
                   results_sdf, results_unsym, clock, reads, solves, opens,
                   memErrs, peak, loadedAt, fs0, calls>>

\* for i in range(num_runs)
ForRun ==
    /\ pc = "for_i"
    /\ IF i < n_runs
       THEN index' = 0 /\ pc' = "for_m"
       ELSE index' = index /\ pc' = "return"
    /\ UNCHANGED <<argv, pypardiso, os, fs, error, warned, library, n_runs,
                   prompted, globs, corpus, matrices, i, A, b, result, results,
                   results_sdf, results_unsym, clock, reads, solves, opens,
                   memErrs, peak, loadedAt, fs0, calls, attempts>>

\* for index, path in enumerate(matrices)
ForMatrix ==
    /\ pc = "for_m"
    /\ IF index < Len(matrices)
       THEN i' = i /\ pc' = "load"
       ELSE i' = i + 1 /\ pc' = "for_i"
    /\ UNCHANGED <<argv, pypardiso, os, fs, error, warned, library, n_runs,
                   prompted, globs, corpus, matrices, index, A, b, result,
                   results, results_sdf, results_unsym, clock, reads, solves,
                   opens, memErrs, peak, loadedAt, fs0, calls, attempts>>

\* path of the current iteration
path == matrices[index + 1]

\* mutant of matrix_name: path.split('/')[0]
matrix_nameFirst(p) == p[1]

\* matrix_name = path.split('/')[-1]
matrix_name(p) == Last(p)

\* whether main binds A: one of its two branches is taken
BindsA(lib) == lib = "mkl" \/ lib = "umfpack" \/ lib = "superlu"

\* the layout main asks load_matrix for
LoadFormat(lib) == IF lib = "mkl" THEN "csr" ELSE "csc"

\* number of matrices alive
Alive(m) == IF m = None THEN 0 ELSE 1

\* A = load_matrix(path, ...)
Load ==
    /\ pc = "load"
    /\ IF ~BindsA(library)
       THEN /\ Raise("UnboundLocalError")
            /\ UNCHANGED <<A, reads, peak, loadedAt>>
       ELSE \E readable \in BOOLEAN :
              LET out == load_matrix(path, LoadFormat(library), readable) IN
              /\ reads' = reads + out.reads
              /\ IF out.raised = "none"
                 THEN /\ A' = out.value
                      /\ peak' = Max(peak, Alive(A) + 1)
                      /\ loadedAt' = <<corpus, i, index>>
                      /\ pc' = "build"
                      /\ error' = error
                 ELSE /\ Raise(out.raised)
                      /\ UNCHANGED <<A, peak, loadedAt>>
    /\ UNCHANGED <<argv, pypardiso, os, fs, warned, library, n_runs,
                   prompted, globs, corpus, matrices, i, index, b, result,
                   results, results_sdf, results_unsym, clock, solves,
                   opens, memErrs, fs0, calls, attempts>>

\* b = create_b(A)
Build ==
    /\ pc = "build"
    /\ b' = create_b(A)
    /\ pc' = "solve"
    /\ UNCHANGED <<argv, pypardiso, os, fs, error, warned, library, n_runs,
                   prompted, globs, corpus, matrices, i, index, A, result,
                   results, results_sdf, results_unsym, clock, reads, solves,
                   opens, memErrs, peak, loadedAt, fs0, calls, attempts>>

\* what a backend can do with a system
Outcomes == {"ok", "MemoryError", "RuntimeError"}

\* result = solve_with_profiling(A, b, matrix_name, matrices_type, solver_library=library)
Solve ==
    /\ pc = "solve"
    /\ \E outcome \in Outcomes :
          LET out == solve_with_profiling(A, b, matrix_name(path),
                         MatricesType(corpus), library, outcome, pypardiso, clock)
              mem == IF out.solves = 1 /\ outcome = "MemoryError" THEN 1 ELSE 0
          IN  /\ memErrs + mem <= MaxMemErrs
              /\ memErrs' = memErrs + mem
              /\ clock' = clock + out.ticks
              /\ solves' = solves + out.solves
              /\ attempts' = IF out.solves = 1 THEN Append(attempts, outcome)
                              ELSE attempts
              /\ IF out.raised = "none"
                 THEN result' = out.value /\ pc' = "append" /\ error' = error
                 ELSE result' = result /\ Raise(out.raised)
    /\ UNCHANGED <<argv, pypardiso, os, fs, warned, library, n_runs,
                   prompted, globs, corpus, matrices, i, index, A, b,
                   results, results_sdf, results_unsym, reads,
                   opens, peak, loadedAt, fs0, calls>>

\* results.append(result)
AppendResult ==
    /\ pc = "append"
    /\ results' = Append(results, result)
    /\ pc' = "release"
    /\ UNCHANGED <<argv, pypardiso, os, fs, error, warned, library, n_runs,
                   prompted, globs, corpus, matrices, i, index, A, b, result,
                   results_sdf, results_unsym, clock, reads, solves,
                   opens, memErrs, peak, loadedAt, fs0, calls, attempts>>

\* mutant of Release: no "del A, b"
ReleaseKeeps ==
    /\ pc = "release"
    /\ index' = index + 1
    /\ pc' = "for_m"
    /\ UNCHANGED <<argv, pypardiso, os, fs, error, warned, library, n_runs,
                   prompted, globs, corpus, matrices, i, A, b, result, results,
                   results_sdf, results_unsym, clock, reads, solves,
                   opens, memErrs, peak, loadedAt, fs0, calls, attempts>>

\* del A, b; gc.collect(); and the step of the inner loop
Release ==
    /\ pc = "release"
    /\ A' = None
    /\ b' = None
    /\ index' = index + 1
    /\ pc' = "for_m"
    /\ UNCHANGED <<argv, pypardiso, os, fs, error, warned, library, n_runs,
                   prompted, globs, corpus, matrices, i, result, results,
                   results_sdf, results_unsym, clock, reads, solves,
                   opens, memErrs, peak, loadedAt, fs0, calls, attempts>>

\* mutant of Return: each run of main is logged as soon as it returns
ReturnAndLog ==
    /\ pc = "return"
    /\ IF corpus = 1
       THEN /\ results_sdf' = results
            /\ corpus' = 2
            /\ pc' = "glob"
            /\ UNCHANGED results_unsym
       ELSE /\ results_unsym' = results
            /\ pc' = "log_sdf"
            /\ UNCHANGED <<results_sdf, corpus>>
    /\ LET out == log_results(fs, results, "python-result-log") IN
          fs' = out.fs /\ opens' = opens + out.opens
    /\ A' = None
    /\ b' = None
    /\ UNCHANGED <<argv, pypardiso, os, error, warned, library, n_runs,
                   prompted, globs, matrices, i, index, result, results,
                   clock, reads, solves, memErrs, peak, loadedAt,
                   fs0, calls, attempts>>

\* return results, and the assignment of the value in __main__
Return ==
    /\ pc = "return"
    /\ IF corpus = 1
       THEN /\ results_sdf' = results
            /\ corpus' = 2
            /\ pc' = "glob"
            /\ UNCHANGED results_unsym
       ELSE /\ results_unsym' = results
            /\ pc' = "log_sdf"
            /\ UNCHANGED <<results_sdf, corpus>>
    /\ A' = None
    /\ b' = None
    /\ UNCHANGED <<argv, pypardiso, os, fs, error, warned, library, n_runs,
                   prompted, globs, matrices, i, index, result, results,
                   clock, reads, solves, opens, memErrs, peak, loadedAt,
                   fs0, calls, attempts>>

\* log_results(results_sdf, filename='python-result-log')
LogSdf ==
    /\ pc = "log_sdf"
    /\ LET out == log_results(fs, results_sdf, "python-result-log") IN
          fs' = out.fs /\ opens' = opens + out.opens
    /\ pc' = "log_unsym"
    /\ UNCHANGED <<argv, pypardiso, os, error, warned, library, n_runs,
                   prompted, globs, corpus, matrices, i, index, A, b, result,
                   results, results_sdf, results_unsym, clock, reads, solves,
                   memErrs, peak, loadedAt, fs0, calls, attempts>>

\* log_results(results_unsym, filename='python-result-log')
LogUnsym ==
    /\ pc = "log_unsym"
    /\ LET out == log_results(fs, results_unsym, "python-result-log") IN
          fs' = out.fs /\ opens' = opens + out.opens
    /\ pc' = "done"
    /\ UNCHANGED <<argv, pypardiso, os, error, warned, library, n_runs,
                   prompted, globs, corpus, matrices, i, index, A, b, result,
                   results, results_sdf, results_unsym, clock, reads, solves,
                   memErrs, peak, loadedAt, fs0, calls, attempts>>

Next ==
    \/ Import
    \/ Args
    \/ Prompt
    \/ Glob
    \/ ForRun
    \/ ForMatrix
    \/ Load
    \/ Build
    \/ Solve
    \/ AppendResult
    \/ Release
    \/ Return
    \/ LogSdf
    \/ LogUnsym

Spec == Init /\ [][Next]_vars

(***************************************************************************)
(* load_matrix called on its own (SpecLoad).                               *)
(***************************************************************************)
Formats == {"csr", "csc", "coo", "CSR"}

DataPaths == {Append(DataDir(c), f) : c \in {1, 2}, f \in Names}

InitLoad ==
    /\ argv = <<"solver.py">>
    /\ pypardiso = TRUE
    /\ os = "Linux"
    /\ fs = [p \in LogPaths |-> Absent]
    /\ fs0 = fs
    /\ pc = "load_matrix"
    /\ Idle

LoadCall ==
    /\ pc = "load_matrix"
    /\ Len(calls) < MaxCalls
    /\ \E p \in DataPaths, matrix_format \in Formats, readable \in BOOLEAN :
          LET out == load_matrix(p, matrix_format, readable) IN
          /\ calls' = Append(calls, [path |-> p, matrix_format |-> matrix_format,
                                     raised |-> out.raised, value |-> out.value,
                                     reads |-> out.reads])
          /\ reads' = reads + out.reads
          /\ error' = out.raised
          /\ A' = out.value
    /\ UNCHANGED <<argv, pypardiso, os, fs, pc, warned, library, n_runs,
                   prompted, globs, corpus, matrices, i, index, b, result,
                   results, results_sdf, results_unsym, clock, solves, opens,
                   memErrs, peak, loadedAt, fs0, attempts>>

NextLoad == LoadCall

SpecLoad == InitLoad /\ [][NextLoad]_vars

(***************************************************************************)
(* log_results called on its own (SpecLog).                                *)
(***************************************************************************)
\* results of two solves of a.mtx by umfpack, the second one out of memory
SampleResults ==
    LET Am == tocsc(mmread(Append(DataDir(1), "a.mtx"))) IN
    {RunResult(Am, create_b(Am), "a.mtx", "def_pos", "umfpack", m, 0) :
        m \in BOOLEAN}

ResultLists == UNION {[1..k -> SampleResults] : k \in 0..MaxBatch}

InitLog ==
    /\ argv = <<"solver.py">>
    /\ pypardiso = TRUE
    /\ os \in {"Linux", "Windows"}
    /\ fs \in Disks
    /\ fs0 = fs
    /\ pc = "log_results"
    /\ Idle

LogCall ==
    /\ pc = "log_results"
    /\ Len(calls) < MaxCalls
    /\ \E rs \in ResultLists :
          LET out == log_results(fs, rs, "python-result-log") IN
          /\ calls' = Append(calls, rs)
          /\ fs' = out.fs
          /\ opens' = opens + out.opens
    /\ UNCHANGED <<argv, pypardiso, os, pc, error, warned, library, n_runs,
                   prompted, globs, corpus, matrices, i, index, A, b, result,
                   results, results_sdf, results_unsym, clock, reads, solves,
                   memErrs, peak, loadedAt, fs0, attempts>>

NextLog == LogCall

SpecLog == InitLog /\ [][NextLog]_vars

(***************************************************************************)
(* Properties.                                                             *)
(***************************************************************************)
\* the process has ended
Terminated == pc \in {"done", "failed"}

\* main is running (between its entry and its return)
InMain == pc \in {"for_i", "for_m", "load", "build", "solve", "append",
                  "release", "return"}

\* the result file this platform's tag names, and the one the script uses
ThisPlatformLog ==
    FilePath(IF os = "Linux" THEN "ubuntu" ELSE "windows", "python-result-log")

UsedLog == FilePath(system_type, "python-result-log")

\* C1: with library 'umfpack', the result of every solve that raised
\* MemoryError has relative_error -1 and umfpack_error 1, MemoryError never
\* ends the process, and the loop goes on (main returns one result per
\* matrix and trial); the result of every solve that returned has
\* umfpack_error 0 and a relative_error other than -1.
C1_UmfpackMemoryError ==
    library = "umfpack" =>
        /\ error # "MemoryError"
        /\ Len(results) <= Len(attempts)
        /\ \A k \in 1..Len(results) :
              /\ attempts[k] = "MemoryError" =>
                    /\ results[k].relative_error = -1
                    /\ results[k].umfpack_error = 1
              /\ attempts[k] # "MemoryError" =>
                    /\ results[k].relative_error # -1
                    /\ results[k].umfpack_error = 0
        /\ pc = "return" =>
              /\ Len(attempts) = n_runs * Len(matrices)
              /\ Len(results) = Len(attempts)

\* C1's case: a solve ran out of memory, and a later solve has a result
C1_Witness ==
    /\ library = "umfpack"
    /\ InMain
    /\ \E k \in 1..Len(results) :
          k < Len(results) /\ attempts[k] = "MemoryError"

\* the results passed to log_results so far, in order
RECURSIVE Flatten(_)
Flatten(ss) == IF ss = <<>> THEN <<>> ELSE ss[1] \o Flatten(Tail(ss))

\* the fields of the row of result r, in the order of the header
C2_Fields(r, tag) ==
    <<r.matrix_name, r.matrix_dimensions, r.matrix_type, r.start_time,
      r.end_time, r.relative_error, tag, r.solver_library, r.umfpack_error>>

\* C2: starting from a destination file that does not exist, after any
\* calls of log_results with non-empty lists the file is one header line
\* followed by one row per logged result, in call order and in list order;
\* so no call rewrites the header or the rows of an earlier call.
C2_HeaderOnceThenRows ==
    (pc = "log_results" /\ ~fs0[UsedLog].exists /\ Flatten(calls) # <<>>) =>
        LET lines == fs[UsedLog].lines
            logged == Flatten(calls)
        IN  /\ fs[UsedLog].exists
            /\ Len(lines) = 1 + Len(logged)
            /\ lines[1] = <<"LF", csv_fields>>
            /\ \A k \in 1..Len(logged) :
                  lines[k + 1] = <<"CRLF", C2_Fields(logged[k], lines[k + 1][2][7])>>

\* C2's case: two calls with non-empty lists on a fresh destination
C2_Witness ==
    /\ pc = "log_results"
    /\ ~fs0[UsedLog].exists
    /\ Len(calls) = 2
    /\ calls[1] # <<>>
    /\ calls[2] # <<>>
    /\ calls[1] # calls[2]

\* C3: a call of log_results with an empty list opens no file and leaves
\* every file as it was, existing or not.
C3_EmptyListNoWrite ==
    [][(pc = "log_results" /\ Len(calls') > Len(calls) /\ Last(calls') = <<>>)
          => (fs' = fs /\ opens' = opens)]_vars

\* C3's case: an empty list was logged and the destination does not exist
C3_Witness ==
    /\ pc = "log_results"
    /\ Len(calls) >= 1
    /\ Last(calls) = <<>>
    /\ ~fs[UsedLog].exists

\* the command lines C4 is about
C4_BadInvocation ==
    \/ Len(argv) # 3
    \/ argv[2] \notin {"mkl", "superlu", "umfpack"}
    \/ (IsNumeral(argv[3]) /\ int(argv[3]) < 1)

\* C4: an invocation with an argument count other than two, a backend
\* other than 'mkl', 'superlu', 'umfpack', or a trial count below 1 ends
\* with an error before the prompt is shown, before any glob or matrix
\* read, and before any result file is opened.
C4_FailFast ==
    C4_BadInvocation =>
        /\ pc \in {"import", "args", "failed"}
        /\ pc = "failed" => error = "ValueError"
        /\ ~prompted
        /\ globs = 0
        /\ reads = 0
        /\ opens = 0
        /\ fs = fs0

\* C4's case: a well-formed command line with trial count 0 has failed
C4_Witness ==
    /\ pc = "failed"
    /\ Len(argv) = 3
    /\ argv[2] = "umfpack"
    /\ argv[3] = "0"

C6_FailsIffMkl ==
    (Terminated /\ ~pypardiso /\ prompted /\ error # "OSError") =>
        (error = "NameError" <=> library = "mkl")

\* C6 as amended: without pypardiso the start prints the warning and goes
\* on; with 'superlu' or 'umfpack' every solve does what it does with the
\* module present; and a run fails because of the missing module if and
\* only if backend 'mkl' was selected and the run reached a solve (a
\* matrix was found and loaded).
C6_FailsIffMklSolves ==
    /\ pc # "import" => (warned <=> ~pypardiso)
    /\ (pc = "solve" /\ library # "mkl") =>
          \A outcome \in Outcomes :
              solve_with_profiling(A, b, matrix_name(path), MatricesType(corpus),
                                   library, outcome, TRUE, clock)
              = solve_with_profiling(A, b, matrix_name(path), MatricesType(corpus),
                                     library, outcome, FALSE, clock)
    /\ error = "NameError" => (~pypardiso /\ library = "mkl")
    /\ (Terminated /\ ~pypardiso /\ library = "mkl") =>
          (error = "NameError" <=> A # None)
    /\ (~pypardiso /\ library = "mkl") => solves = 0

\* C6's case: without pypardiso, a run with 'mkl' has failed at its first
\* solve
C6_Witness ==
    /\ pc = "failed"
    /\ ~pypardiso
    /\ warned
    /\ library = "mkl"
    /\ error = "NameError"
    /\ A # None

\* C7 as claimed: load_matrix with a layout other than 'csr' or 'csc'
\* fails with InvalidMatrixFormat before any read of the file; with 'csr'
\* or 'csc' it reads the file exactly once and returns the matrix in the
\* requested layout.
C7_InvalidFormatError ==
    pc = "load_matrix" =>
        \A k \in 1..Len(calls) :
            IF calls[k].matrix_format \in {"csr", "csc"}
            THEN /\ calls[k].reads = 1
                 /\ calls[k].raised = "none" =>
                       /\ calls[k].value.format = calls[k].matrix_format
                       /\ calls[k].value.path = calls[k].path
            ELSE /\ calls[k].raised = "InvalidMatrixFormat"
                 /\ calls[k].reads = 0

\* C8 as claimed: the platform tag of the file name and of the 'system'
\* column is 'ubuntu' on Linux and 'windows' on every other platform.
C8_PlatformTag ==
    \A p \in LogPaths :
        fs[p] # fs0[p] =>
            /\ p = ThisPlatformLog
            /\ \A k \in (Len(fs0[p].lines) + 1)..Len(fs[p].lines) :
                  fs[p].lines[k][1] = "CRLF" =>
                      fs[p].lines[k][2][7] = ThisPlatformLog[1]

\* C9: every solve in main is a cold solve: in each iteration the matrix
\* is loaded from its path, then the rhs is built from it, then it is
\* solved, then the result is appended, then matrix and rhs are released;
\* the matrix solved was loaded in the same iteration; the loads are as
\* many as the solve attempts; at most one matrix is held at any time.
C9_ColdSolve ==
    InMain =>
        /\ pc \in {"build", "solve", "append", "release"} =>
              /\ A # None
              /\ A.path = path
              /\ loadedAt = <<corpus, i, index>>
        /\ pc \in {"solve", "append", "release"} => b = create_b(A)
        /\ pc \in {"append", "release"} =>
              /\ result # None
              /\ result.matrix_name = Last(A.path)
              /\ result.start_time = clock - 2
        /\ pc = "release" => Last(results) = result
        /\ pc \in {"for_i", "for_m", "load", "return"} => (A = None /\ b = None)
        /\ reads = solves + (IF pc \in {"build", "solve"} THEN 1 ELSE 0)
        /\ solves = Len(results) + (IF pc = "append" THEN 1 ELSE 0)
                    + (IF corpus = 2 THEN Len(results_sdf) ELSE 0)
        /\ peak <= 1

\* C9's case: a solve of the second trial
C9_Witness ==
    /\ pc = "solve"
    /\ i = 1
    /\ index = 1
    /\ corpus = 2
    /\ results_sdf # <<>>

\* C10: if a load or a solve raises an error other than the MemoryError
\* of UMFPACK, the process ends with the result files unchanged: both
\* calls of log_results come after both runs of main have returned.
C10_NoLogOnAbort ==
    /\ pc \notin {"log_unsym", "done"} => (fs = fs0 /\ opens = 0)
    /\ (pc = "failed" /\ prompted) =>
          /\ globs >= 1
          /\ error \in {"OSError", "RuntimeError", "MemoryError", "NameError"}
          /\ error = "MemoryError" => library # "umfpack"

\* C10's case: the second run of main is aborted by a solver error after
\* the first run returned results
C10_Witness ==
    /\ pc = "failed"
    /\ corpus = 2
    /\ error = "RuntimeError"
    /\ results_sdf # <<>>
    /\ results # <<>>

====
